---------------------------- MODULE Spec2Model ----------------------------
(***************************************************************************)
(* BME280 driver (neliogodoi/MicroPython-BME280), four variants:           *)
(*   "std"      src/bme280.py                                              *)
(*   "lowmem"   src/bme280_lowmem.py                                       *)
(*   "mb"       src/bme280_microbit.py                                     *)
(*   "mblow"    src/bme280_microbit_lowmem.py                              *)
(* The model covers construction (validation, calibration decoding,       *)
(* configuration writes), the forced-mode trigger / wait / poll / read     *)
(* protocol of read_raw_data, the fixed-point compensation of              *)
(* read_compensated_data and the bus effect of altitude.                   *)
(***************************************************************************)
EXTENDS Integers, Sequences, FiniteSets, Bags, TLC

(***************************************************************************)
(* Python integers are unbounded.  The compensation chain exceeds 2^31     *)
(* (1 << 47, p << 31, ...), so it is computed on arbitrary-precision       *)
(* integers: a number is [neg |-> BOOLEAN, mag |-> limbs], limbs           *)
(* little-endian in base 2^15 without leading zero limbs; zero is          *)
(* [neg |-> FALSE, mag |-> <<>>].                                          *)
(***************************************************************************)
Base == 32768

LimbBits == 15

RECURSIVE Pow2(_)
Pow2(n) == IF n = 0 THEN 1 ELSE IF n = 1 THEN 2 ELSE IF n = 2 THEN 4
           ELSE IF n = 3 THEN 8 ELSE IF n = 4 THEN 16 ELSE IF n = 5 THEN 32
           ELSE IF n = 6 THEN 64 ELSE IF n = 7 THEN 128 ELSE IF n = 8 THEN 256
           ELSE IF n = 9 THEN 512 ELSE IF n = 10 THEN 1024
           ELSE IF n = 11 THEN 2048 ELSE IF n = 12 THEN 4096
           ELSE IF n = 13 THEN 8192 ELSE IF n = 14 THEN 16384
           ELSE IF n = 15 THEN 32768 ELSE 65536 * Pow2(n - 16)

RECURSIVE MNorm(_)
MNorm(m) == IF m = <<>> THEN <<>>
            ELSE IF m[Len(m)] = 0 THEN MNorm(SubSeq(m, 1, Len(m) - 1))
            ELSE m

Limb(m, i) == IF i <= Len(m) THEN m[i] ELSE 0

RECURSIVE MCmpFrom(_, _, _)
MCmpFrom(a, b, i) ==
    IF i = 0 THEN 0
    ELSE IF a[i] < b[i] THEN -1
    ELSE IF a[i] > b[i] THEN 1
    ELSE MCmpFrom(a, b, i - 1)

\* -1, 0, 1 as a < b, a = b, a > b (normalised magnitudes)
MCmp(a, b) == IF Len(a) < Len(b) THEN -1
              ELSE IF Len(a) > Len(b) THEN 1
              ELSE MCmpFrom(a, b, Len(a))

RECURSIVE MAddFrom(_, _, _, _)
MAddFrom(a, b, i, c) ==
    IF i > Len(a) /\ i > Len(b)
    THEN (IF c = 0 THEN <<>> ELSE <<c>>)
    ELSE LET s == Limb(a, i) + Limb(b, i) + c
         IN  <<s % Base>> \o MAddFrom(a, b, i + 1, s \div Base)

MAdd(a, b) == MAddFrom(a, b, 1, 0)

RECURSIVE MSubFrom(_, _, _, _)
MSubFrom(a, b, i, c) ==
    IF i > Len(a) THEN <<>>
    ELSE LET s == a[i] - Limb(b, i) - c
         IN  IF s < 0 THEN <<s + Base>> \o MSubFrom(a, b, i + 1, 1)
             ELSE <<s>> \o MSubFrom(a, b, i + 1, 0)

\* a - b for a >= b
MSub(a, b) == MNorm(MSubFrom(a, b, 1, 0))

RECURSIVE MMulSmallFrom(_, _, _, _)
MMulSmallFrom(a, k, i, c) ==
    IF i > Len(a) THEN (IF c = 0 THEN <<>> ELSE <<c>>)
    ELSE LET p == a[i] * k + c
         IN  <<p % Base>> \o MMulSmallFrom(a, k, i + 1, p \div Base)

\* a * k for 0 <= k < Base
MMulSmall(a, k) == IF k = 0 THEN <<>> ELSE MMulSmallFrom(a, k, 1, 0)

Zeros(n) == [i \in 1..n |-> 0]

RECURSIVE MMulFrom(_, _, _)
MMulFrom(a, b, i) ==
    IF i > Len(b) THEN <<>>
    ELSE LET row == MMulSmall(a, b[i])
             sh  == IF row = <<>> THEN <<>> ELSE Zeros(i - 1) \o row
         IN  MAdd(sh, MMulFrom(a, b, i + 1))

MMul(a, b) == IF a = <<>> \/ b = <<>> THEN <<>> ELSE MMulFrom(a, b, 1)

\* a * 2^k
MShl(a, k) ==
    IF a = <<>> THEN <<>>
    ELSE Zeros(k \div LimbBits) \o MMulSmall(a, Pow2(k % LimbBits))

RECURSIVE MDivSmallFrom(_, _, _, _)
MDivSmallFrom(a, d, i, r) ==
    IF i = 0 THEN <<>>
    ELSE LET n == r * Base + a[i]
         IN  MDivSmallFrom(a, d, i - 1, n % d) \o <<n \div d>>

\* floor(a / d) for 0 < d <= Base
MDivSmall(a, d) == MNorm(MDivSmallFrom(a, d, Len(a), 0))

\* floor(a / 2^k)
MShr(a, k) ==
    LET drop == k \div LimbBits
    IN  IF drop >= Len(a) THEN <<>>
        ELSE MDivSmall(SubSeq(a, drop + 1, Len(a)), Pow2(k % LimbBits))

RECURSIVE MDigit(_, _, _, _)
\* the largest d in lo..hi with b * d <= r
MDigit(r, b, lo, hi) ==
    IF lo = hi THEN lo
    ELSE LET mid == (lo + hi + 1) \div 2
         IN  IF MCmp(MMulSmall(b, mid), r) <= 0
             THEN MDigit(r, b, mid, hi)
             ELSE MDigit(r, b, lo, mid - 1)

RECURSIVE MDivFrom(_, _, _, _)
\* long division, one limb of a per step, from the top limb down
MDivFrom(a, b, i, r) ==
    IF i = 0 THEN <<>>
    ELSE LET r1 == MNorm(<<a[i]>> \o r)
             d  == MDigit(r1, b, 0, Base - 1)
         IN  MDivFrom(a, b, i - 1, MSub(r1, MMulSmall(b, d))) \o <<d>>

\* floor(a / b) for b # 0
MDiv(a, b) == MNorm(MDivFrom(a, b, Len(a), <<>>))

Big(neg, mag) == [neg |-> (neg /\ mag # <<>>), mag |-> mag]

RECURSIVE MFromNat(_)
MFromNat(n) == IF n = 0 THEN <<>> ELSE <<n % Base>> \o MFromNat(n \div Base)

\* an integer of the checker's own width as an unbounded integer
B(i) == IF i < 0 THEN Big(TRUE, MFromNat(0 - i)) ELSE Big(FALSE, MFromNat(i))

BZero == B(0)

BNeg(x) == Big(~x.neg, x.mag)

BAdd(x, y) ==
    IF x.neg = y.neg THEN Big(x.neg, MAdd(x.mag, y.mag))
    ELSE IF MCmp(x.mag, y.mag) >= 0 THEN Big(x.neg, MSub(x.mag, y.mag))
    ELSE Big(y.neg, MSub(y.mag, x.mag))

BSub(x, y) == BAdd(x, BNeg(y))

BMul(x, y) == Big(x.neg # y.neg, MMul(x.mag, y.mag))

\* x << k
BShl(x, k) == Big(x.neg, MShl(x.mag, k))

\* x >> k: Python's shift floors (rounds towards minus infinity)
BShr(x, k) ==
    IF ~x.neg THEN Big(FALSE, MShr(x.mag, k))
    ELSE Big(TRUE, MShr(MAdd(x.mag, MSub(MShl(<<1>>, k), <<1>>)), k))

\* x // y for y # 0: Python's floor division
BFloorDiv(x, y) ==
    LET q == MDiv(x.mag, y.mag)
        exact == MMul(q, y.mag) = x.mag
    IN  IF x.neg = y.neg THEN Big(FALSE, q)
        ELSE IF exact THEN Big(TRUE, q)
        ELSE Big(TRUE, MAdd(q, <<1>>))

BLt(x, y) ==
    IF x.neg # y.neg THEN x.neg
    ELSE IF x.neg THEN MCmp(x.mag, y.mag) > 0
    ELSE MCmp(x.mag, y.mag) < 0

BLe(x, y) == x = y \/ BLt(x, y)

\* the value of x when |x| < 2^30
BToInt(x) ==
    LET v == Limb(x.mag, 1) + Base * Limb(x.mag, 2)
    IN  IF x.neg THEN 0 - v ELSE v

BFitsInt(x) == Len(x.mag) <= 2


(***************************************************************************)
(* Bit operations on the small integers of registers and coefficients.     *)
(* \div and % floor, as Python's >> and & do on negative numbers.          *)
(***************************************************************************)
Shl(x, k) == x * Pow2(k)

Shr(x, k) == x \div Pow2(k)

RECURSIVE BitAnd(_, _)
BitAnd(x, y) ==
    IF x = 0 \/ y = 0 THEN 0
    ELSE IF x = -1 THEN y
    ELSE IF y = -1 THEN x
    ELSE 2 * BitAnd(x \div 2, y \div 2) + (x % 2) * (y % 2)

RECURSIVE BitOr(_, _)
BitOr(x, y) ==
    IF x = 0 THEN y
    ELSE IF y = 0 THEN x
    ELSE IF x = -1 \/ y = -1 THEN -1
    ELSE 2 * BitOr(x \div 2, y \div 2)
         + (IF x % 2 = 1 \/ y % 2 = 1 THEN 1 ELSE 0)

(***************************************************************************)
(* Module constants of src/bme280.py (the other variants inline them).     *)
(***************************************************************************)
OSAMPLE_0 == 0

OSAMPLE_1 == 1

OSAMPLE_2 == 2

OSAMPLE_4 == 3

OSAMPLE_8 == 4

OSAMPLE_16 == 5

FILTER_OFF == 0

FILTER_2 == 1

FILTER_4 == 2

FILTER_8 == 3

FILTER_16 == 4

BME280_REGISTER_STATUS == 243

BME280_REGISTER_CONTROL_HUM == 242

BME280_REGISTER_CONTROL == 244

BME280_REGISTER_CONTROL_IIR == 245

\* first register of the burst 0xF7..0xFE
REG_DATA == 247

\* calibration blocks 0x88..0xA1 and 0xE1..0xE7
REG_CAL1 == 136

REG_CAL2 == 225

Variants == {"std", "lowmem", "mb", "mblow"}

\* the variants written against machine.I2C (readfrom_mem / writeto_mem)
MemVariants == {"std", "lowmem"}

(***************************************************************************)
(* The sensor's calibration memory: 26 bytes from 0x88 and 7 from 0xE1.    *)
(* CalDatasheet holds the coefficients of the vendor's worked example; the *)
(* others put the boundary bytes 0x00, 0x7F, 0x80, 0xFF in every field.    *)
(***************************************************************************)
CalDatasheet ==
    [b1 |-> << 112, 107,  67, 103,  24, 252, 125, 142,  67, 214, 208,  11,
                39,  11, 140,   0, 249, 255, 140,  60, 248, 198, 112,  23,
                 0,  75 >>,
     b2 |-> << 111, 1, 0, 18, 45, 3, 30 >>]

CalZero == [b1 |-> [i \in 1..26 |-> 0], b2 |-> [i \in 1..7 |-> 0]]

CalOnes == [b1 |-> [i \in 1..26 |-> 255], b2 |-> [i \in 1..7 |-> 255]]

CalMax ==
    [b1 |-> [i \in 1..26 |-> IF i % 2 = 1 THEN 255 ELSE 127],
     b2 |-> << 255, 127, 127, 127, 127, 127, 127 >>]

CalMin ==
    [b1 |-> [i \in 1..26 |-> IF i % 2 = 1 THEN 0 ELSE 128],
     b2 |-> << 0, 128, 128, 128, 128, 128, 128 >>]

CalImages == {CalDatasheet, CalZero, CalOnes, CalMax, CalMin}

\* the byte the sensor holds at calibration register reg
CalByte(img, reg) ==
    IF reg >= REG_CAL2 THEN img.b2[reg - REG_CAL2 + 1]
    ELSE img.b1[reg - REG_CAL1 + 1]

(***************************************************************************)
(* Decoding.  ustruct's "<H", "<h", "<B", "<b" on the memory variants;     *)
(* _read16, _read8 and _short on the micro:bit variants.                   *)
(***************************************************************************)
UnpackH16(lo, hi) == lo + 256 * hi

Unpackh16(lo, hi) ==
    LET v == lo + 256 * hi IN IF v >= 32768 THEN v - 65536 ELSE v

Unpackb8(b) == IF b >= 128 THEN b - 256 ELSE b

Read16(img, reg) == CalByte(img, reg) + CalByte(img, reg + 1) * 256

Read8(img, reg) == CalByte(img, reg)

\* bme280_microbit.py: [dat-65536, dat][dat > 32767]
ShortMb(dat) == IF dat > 32767 THEN dat ELSE dat - 65536

\* bme280_microbit_lowmem.py
ShortMbLow(dat) == IF dat > 32767 THEN dat - 65536 ELSE dat

Short(v, dat) == IF v = "mb" THEN ShortMb(dat) ELSE ShortMbLow(dat)

\* the 16-bit field at offset k (0-based) of block 1 on the memory variants
MemS16(img, k) == Unpackh16(img.b1[k + 1], img.b1[k + 2])

MemU16(img, k) == UnpackH16(img.b1[k + 1], img.b1[k + 2])

DecodeMem(img) ==
    LET e4_sign == Unpackb8(img.b2[4])
        e6_sign == Unpackb8(img.b2[6])
    IN  [T1 |-> MemU16(img, 0),  T2 |-> MemS16(img, 2),  T3 |-> MemS16(img, 4),
         P1 |-> MemU16(img, 6),  P2 |-> MemS16(img, 8),  P3 |-> MemS16(img, 10),
         P4 |-> MemS16(img, 12), P5 |-> MemS16(img, 14), P6 |-> MemS16(img, 16),
         P7 |-> MemS16(img, 18), P8 |-> MemS16(img, 20), P9 |-> MemS16(img, 22),
         H1 |-> img.b1[26],
         H2 |-> Unpackh16(img.b2[1], img.b2[2]),
         H3 |-> img.b2[3],
         H4 |-> BitOr(Shl(e4_sign, 4), BitAnd(img.b2[5], 15)),
         H5 |-> BitOr(Shl(e6_sign, 4), Shr(img.b2[5], 4)),
         H6 |-> Unpackb8(img.b2[7])]

DecodeMb(v, img) ==
    LET a  == Read8(img, 229)
        h6 == Read8(img, 231)
    IN  [T1 |-> Read16(img, 136),
         T2 |-> Short(v, Read16(img, 138)),
         T3 |-> Short(v, Read16(img, 140)),
         P1 |-> Read16(img, 142),
         P2 |-> Short(v, Read16(img, 144)),
         P3 |-> Short(v, Read16(img, 146)),
         P4 |-> Short(v, Read16(img, 148)),
         P5 |-> Short(v, Read16(img, 150)),
         P6 |-> Short(v, Read16(img, 152)),
         P7 |-> Short(v, Read16(img, 154)),
         P8 |-> Short(v, Read16(img, 156)),
         P9 |-> Short(v, Read16(img, 158)),
         H1 |-> Read8(img, 161),
         H2 |-> Short(v, Read16(img, 225)),
         H3 |-> Read8(img, 227),
         H4 |-> Shl(Read8(img, 228), 4) + (a % 16),
         H5 |-> Shl(Read8(img, 230), 4) + Shr(a, 4),
         H6 |-> IF h6 > 127 THEN h6 - 256 ELSE h6]

\* the coefficients a constructor of variant v stores from the image
Decode(v, img) == IF v \in MemVariants THEN DecodeMem(img) ELSE DecodeMb(v, img)

(***************************************************************************)
(* read_raw_data: extraction of the raw codes from the 8 data bytes.       *)
(***************************************************************************)
\* ((msb << 16) | (lsb << 8) | xlsb) >> 4
Raw20(msb, lsb, xlsb) == Shr(BitOr(BitOr(Shl(msb, 16), Shl(lsb, 8)), xlsb), 4)

\* (msb << 8) | lsb
Raw16(msb, lsb) == BitOr(Shl(msb, 8), lsb)

\* <<raw_temp, raw_press, raw_hum>> of the bytes 0xF7..0xFE
RawOf(r) == << Raw20(r[4], r[5], r[6]), Raw20(r[1], r[2], r[3]), Raw16(r[7], r[8]) >>

CtrlByte(cfg) == BitOr(BitOr(Shl(cfg.p, 5), Shl(cfg.t, 2)), 1)

\* the wait without the two 575 us terms
SleepTimeNoOffsets(cfg) ==
    LET osamples_1_16 == {OSAMPLE_1, OSAMPLE_2, OSAMPLE_4, OSAMPLE_8, OSAMPLE_16}
        s0 == 1250
        s1 == IF cfg.t \in osamples_1_16 THEN s0 + 2300 * Shl(1, cfg.t) ELSE s0
        s2 == IF cfg.p \in osamples_1_16 THEN s1 + (2300 * Shl(1, cfg.p)) ELSE s1
    IN  IF cfg.h \in osamples_1_16 THEN s2 + (2300 * Shl(1, cfg.h)) ELSE s2

\* sleep_time of read_raw_data, in microseconds
SleepTime(cfg) ==
    LET osamples_1_16 == {OSAMPLE_1, OSAMPLE_2, OSAMPLE_4, OSAMPLE_8, OSAMPLE_16}
        s0 == 1250
        s1 == IF cfg.t \in osamples_1_16 THEN s0 + 2300 * Shl(1, cfg.t) ELSE s0
        s2 == IF cfg.p \in osamples_1_16
              THEN s1 + 575 + (2300 * Shl(1, cfg.p)) ELSE s1
    IN  IF cfg.h \in osamples_1_16
        THEN s2 + 575 + (2300 * Shl(1, cfg.h)) ELSE s2

(***************************************************************************)
(* read_compensated_data: the three stages, on unbounded integers.         *)
(* d is the coefficient record, tf the value read from self.t_fine.        *)
(***************************************************************************)
\* x is a value of a signed integer type of that many bits
FitsSigned(x, bits) ==
    /\ BLe(BNeg(BShl(B(1), bits - 1)), x)
    /\ BLt(x, BShl(B(1), bits - 1))

\* the intermediates of the temperature stage, statement by statement
\* var1 = ((raw_temp >> 3) - (self.dig_T1 << 1)) * (self.dig_T2 >> 11)
TempVar1(d, raw_temp) ==
    BMul(BSub(BShr(B(raw_temp), 3), BShl(B(d.T1), 1)), BShr(B(d.T2), 11))

\* var2 = (raw_temp >> 4) - self.dig_T1
TempVar2Diff(d, raw_temp) == BSub(BShr(B(raw_temp), 4), B(d.T1))

\* var2 = var2 * ((raw_temp >> 4) - self.dig_T1)
TempVar2Sq(d, raw_temp) ==
    BMul(TempVar2Diff(d, raw_temp), BSub(BShr(B(raw_temp), 4), B(d.T1)))

\* (var2 >> 12) * self.dig_T3
TempVar2Mul(d, raw_temp) == BMul(BShr(TempVar2Sq(d, raw_temp), 12), B(d.T3))

\* var2 = ((var2 >> 12) * self.dig_T3) >> 14
TempVar2(d, raw_temp) == BShr(TempVar2Mul(d, raw_temp), 14)

\* t_fine with var2 left unshifted
TFineNoShift(d, raw_temp) ==
    BAdd(TempVar1(d, raw_temp), TempVar2Mul(d, raw_temp))

TFine(d, raw_temp) ==
    LET rt   == B(raw_temp)
        T1   == B(d.T1)
        var1 == BMul(BSub(BShr(rt, 3), BShl(T1, 1)), BShr(B(d.T2), 11))
        v2a  == BSub(BShr(rt, 4), T1)
        v2b  == BMul(v2a, BSub(BShr(rt, 4), T1))
        var2 == BShr(BMul(BShr(v2b, 12), B(d.T3)), 14)
    IN  BAdd(var1, var2)

Temp(tf) == BShr(BAdd(BMul(tf, B(5)), B(128)), 8)

\* the divisor var1 of the pressure stage
PressVar1(d, tf) ==
    LET v1 == BSub(tf, B(128000))
        a  == BAdd(BShr(BMul(BMul(v1, v1), B(d.P3)), 8),
                   BShl(BMul(v1, B(d.P2)), 12))
    IN  BShr(BMul(BAdd(BShl(B(1), 47), a), B(d.P1)), 33)

PressVar2(d, tf) ==
    LET v1 == BSub(tf, B(128000))
        a  == BMul(BMul(v1, v1), B(d.P6))
        b  == BAdd(a, BShl(BMul(v1, B(d.P5)), 17))
    IN  BAdd(b, BShl(B(d.P4), 35))

PressNonZero(d, tf, raw_press) ==
    LET var1 == PressVar1(d, tf)
        var2 == PressVar2(d, tf)
        p0   == BSub(B(1048576), B(raw_press))
        p    == BFloorDiv(BMul(BSub(BShl(p0, 31), var2), B(3125)), var1)
        w1   == BShr(BMul(BMul(B(d.P9), BShr(p, 13)), BShr(p, 13)), 25)
        w2   == BShr(BMul(B(d.P8), p), 19)
    IN  BAdd(BShr(BAdd(BAdd(p, w1), w2), 8), BShl(B(d.P7), 4))

\* the pressure stage without its test of var1: the division by zero leaves
\* no number (a value no integer is equal to)
PressureNoGuard(d, tf, raw_press) ==
    IF PressVar1(d, tf) = BZero THEN [neg |-> TRUE, mag |-> <<>>]
    ELSE PressNonZero(d, tf, raw_press)

\* if var1 == 0: pressure = 0, else the 64-bit formula
Pressure(d, tf, raw_press) ==
    IF PressVar1(d, tf) = BZero THEN BZero
    ELSE PressNonZero(d, tf, raw_press)

\* h before the two clamping statements
HumPre(d, tf, raw_hum) ==
    LET h0 == BSub(tf, B(76800))
        x  == BShr(BAdd(BSub(BSub(BShl(B(raw_hum), 14), BShl(B(d.H4), 20)),
                             BMul(B(d.H5), h0)), B(16384)), 15)
        y1 == BShr(BMul(h0, B(d.H6)), 10)
        y2 == BAdd(BShr(BMul(h0, B(d.H3)), 11), B(32768))
        y3 == BAdd(BShr(BMul(y1, y2), 10), B(2097152))
        y  == BShr(BAdd(BMul(y3, B(d.H2)), B(8192)), 14)
        h1 == BMul(x, y)
        sq == BMul(BShr(h1, 15), BShr(h1, 15))
    IN  BSub(h1, BShr(BMul(BShr(sq, 7), B(d.H1)), 4))

HumMax == 419430400

\* the clamp without its upper limit
HumClampLowOnly(h) == IF BLt(h, BZero) THEN BZero ELSE h

\* h = 0 if h < 0 else h ; h = 419430400 if h > 419430400 else h
HumClamp(h) ==
    LET lo == IF BLt(h, BZero) THEN BZero ELSE h
    IN  IF BLt(B(HumMax), lo) THEN B(HumMax) ELSE lo

Humidity(hc) == BShr(hc, 12)

(***************************************************************************)
(* Bus transactions as the i2c object sees them.                           *)
(*   machine.I2C : readfrom_mem(addr, reg, n), writeto_mem(addr, reg, b)   *)
(*   microbit.i2c: write(addr, bytes), read(addr, n)                       *)
(* A micro:bit register read is a pointer write followed by a read.        *)
(***************************************************************************)
BusRead(reg, n) == [op |-> "read", reg |-> reg, n |-> n, val |-> 0]

BusWrite(reg, val) == [op |-> "write", reg |-> reg, n |-> 1, val |-> val]

BusPointer(reg) == [op |-> "write", reg |-> reg, n |-> 0, val |-> 0]

\* _read8 / _read16 of the micro:bit variants
MbRead(reg, n) == << BusPointer(reg), BusRead(reg, n) >>

\* _write8
MbWrite(reg, dat) == << BusWrite(reg, dat) >>

\* a register read of n bytes in variant v
RegRead(v, reg, n) ==
    IF v \in MemVariants THEN << BusRead(reg, n) >> ELSE MbRead(reg, n)

RegWrite(v, reg, dat) ==
    IF v \in MemVariants THEN << BusWrite(reg, dat) >> ELSE MbWrite(reg, dat)

RECURSIVE Flatten(_)
Flatten(ss) == IF ss = <<>> THEN <<>> ELSE Head(ss) \o Flatten(Tail(ss))

\* the calibration reads of the micro:bit constructors, in program order
MbCalReads ==
    Flatten([i \in 1..12 |-> MbRead(REG_CAL1 + 2 * (i - 1), 2)])
    \o MbRead(161, 1) \o MbRead(225, 2) \o MbRead(227, 1)
    \o MbRead(229, 1) \o MbRead(228, 1) \o MbRead(230, 1) \o MbRead(231, 1)

MemCalReads == << BusRead(REG_CAL1, 26), BusRead(REG_CAL2, 7) >>

(***************************************************************************)
(* Bounds of the model.                                                    *)
(***************************************************************************)
\* calls started in one behaviour
MaxCalls == 3

\* calls started in one behaviour of two threads
MaxConcCalls == 2

Threads == {"A", "B"}

Handles == {"h1", "h2"}

FirstHandle == "h1"

FirstThread == "A"

\* the data registers after power-on: 0x80000, 0x80000, 0x8000
SampleReset == << 128, 0, 0, 128, 0, 0, 128, 0 >>

\* results of a conversion: a room-condition sample and the all-ones sample
Samples == { << 101, 90, 192, 126, 237, 0, 109, 96 >>,
             << 255, 255, 255, 255, 255, 255, 255, 255 >> }

DefaultCfg == [t |-> OSAMPLE_2, p |-> OSAMPLE_16, h |-> OSAMPLE_1,
               iir |-> FILTER_16, scale |-> "C"]

\* constructor arguments tried: accepted ones, one bad value per argument,
\* and a temperature mode wider than the three bits of its field
Configs ==
    { DefaultCfg,
      [t |-> OSAMPLE_16, p |-> OSAMPLE_0, h |-> OSAMPLE_4,
       iir |-> FILTER_OFF, scale |-> "C"],
      [DefaultCfg EXCEPT !.t = 6],
      [DefaultCfg EXCEPT !.t = 8],
      [DefaultCfg EXCEPT !.p = 6],
      [DefaultCfg EXCEPT !.h = 6],
      [DefaultCfg EXCEPT !.iir = 5],
      [DefaultCfg EXCEPT !.scale = "X"] }

Ops == {"read_compensated_data", "altitude"}

VARIABLES
    variant,    \* which of the four source files is running
    image,      \* the calibration memory of the sensors
    dev,        \* per sensor: measuring (status bit 3), data 0xF7..0xFE, control registers
    obj,        \* per BME280 object: its attributes
    thr,        \* per thread: position in the call and its local variables
    history,    \* the calls that have returned, a bag
    ncalls      \* calls started so far

vars == << variant, image, dev, obj, thr, history, ncalls >>

NoCfg == [t |-> 0, p |-> 0, h |-> 0, iir |-> 0, scale |-> "C"]

NoDig == DecodeMem(CalZero)

\* a name not yet bound to an object
NoObj ==
    [state |-> "none", err |-> "", cfg |-> NoCfg, dig |-> NoDig,
     t_fine |-> BZero, l1 |-> 0, l8 |-> [i \in 1..8 |-> 0],
     l3 |-> << 0, 0, 0 >>, log |-> <<>>]

IdleThr ==
    [pc |-> "idle", h |-> "h1", op |-> "read_compensated_data", sleep |-> 0,
     rd |-> <<>>, raw |-> << 0, 0, 0 >>, tf |-> BZero, temp |-> BZero,
     pv1 |-> BZero, pres |-> BZero, log |-> <<>>]

Init ==
    /\ variant \in Variants
    /\ image \in CalImages
    /\ dev = [d \in Handles |->
                [measuring |-> FALSE, data |-> SampleReset,
                 f2 |-> 0, f4 |-> 0, f5 |-> 0]]
    /\ obj = [h \in Handles |-> NoObj]
    /\ thr = [t \in Threads |-> IdleThr]
    /\ history = EmptyBag
    /\ ncalls = 0

(***************************************************************************)
(* The sensor, as the driver's comments describe it: a write to 0xF4 with  *)
(* mode bits 01 or 10 starts one conversion (forced mode), status bit 3 is *)
(* set while it runs, and its end replaces the data registers together.    *)
(***************************************************************************)
DevWrite(d, reg, val) ==
    IF reg = BME280_REGISTER_CONTROL
    THEN [d EXCEPT !.f4 = val,
                   !.measuring = @ \/ (val % 4 \in {1, 2})]
    ELSE IF reg = BME280_REGISTER_CONTROL_HUM THEN [d EXCEPT !.f2 = val]
    ELSE IF reg = BME280_REGISTER_CONTROL_IIR THEN [d EXCEPT !.f5 = val]
    ELSE d

\* the two bytes at 0xF3, little-endian: status, then the register after it
DevStatus16(d) == (IF d.measuring THEN 8 ELSE 0) + 256 * d.f4

DeviceConvert(h) ==
    /\ dev[h].measuring
    /\ \E s \in Samples :
         dev' = [dev EXCEPT ![h].measuring = FALSE, ![h].data = s]
    /\ UNCHANGED << variant, image, obj, thr, history, ncalls >>

(***************************************************************************)
(* BME280.__init__                                                         *)
(***************************************************************************)
\* the checks of bme280.py and bme280_lowmem.py; the micro:bit files have none
CfgAccepted(v, c) ==
    LET osamples == {OSAMPLE_0, OSAMPLE_1, OSAMPLE_2, OSAMPLE_4,
                     OSAMPLE_8, OSAMPLE_16}
    IN  \/ v \notin MemVariants
        \/ /\ c.t \in osamples
           /\ c.p \in osamples
           /\ c.h \in osamples
           /\ c.iir \in {FILTER_OFF, FILTER_2, FILTER_4, FILTER_8, FILTER_16}
           /\ c.scale \in {"C", "F", "K"}

\* the register writes of a constructor that runs to its end, in program order
CtorWrites(v, c) ==
    IF v \in MemVariants
    THEN << BusWrite(BME280_REGISTER_CONTROL, 36),
            BusWrite(BME280_REGISTER_CONTROL_IIR, Shl(c.iir, 2)),
            BusWrite(BME280_REGISTER_CONTROL_HUM, c.h) >>
    ELSE MbWrite(BME280_REGISTER_CONTROL_HUM, c.h)
         \o MbWrite(BME280_REGISTER_CONTROL, 36)
         \o MbWrite(BME280_REGISTER_CONTROL_IIR, Shl(c.iir, 2))

\* bme280_lowmem.py imports sleep and sleep_us from time and then calls
\* time.sleep: the name time is unbound, so the call raises NameError
SleepRaises(v) == v = "lowmem"

\* the bus transactions of the constructor up to its return or its raise
CtorLog(v, c) ==
    IF ~CfgAccepted(v, c) THEN <<>>
    ELSE IF v \in MemVariants
    THEN MemCalReads \o
         (IF SleepRaises(v) THEN SubSeq(CtorWrites(v, c), 1, 1)
          ELSE CtorWrites(v, c))
    ELSE MbCalReads \o CtorWrites(v, c)

CtorError(v, c) ==
    IF ~CfgAccepted(v, c) THEN "ValueError"
    ELSE IF SleepRaises(v) THEN "NameError"
    ELSE ""

RECURSIVE DevApply(_, _)
\* the sensor after the writes of a log
DevApply(d, log) ==
    IF log = <<>> THEN d
    ELSE LET e == Head(log)
         IN  DevApply(IF e.op = "write" /\ e.n = 1
                      THEN DevWrite(d, e.reg, e.val) ELSE d, Tail(log))

Construct(h, c) ==
    /\ obj[h].state = "none"
    /\ LET err == CtorError(variant, c)
           log == CtorLog(variant, c)
       IN  /\ obj' = [obj EXCEPT ![h] =
                        [state  |-> IF err = "" THEN "ok" ELSE "failed",
                         err    |-> err,
                         cfg    |-> c,
                         dig    |-> IF log = <<>> THEN NoDig
                                    ELSE Decode(variant, image),
                         t_fine |-> BZero,
                         l1     |-> IF err = "" /\ variant \in MemVariants
                                    THEN c.h ELSE 0,
                         l8     |-> [i \in 1..8 |-> 0],
                         l3     |-> << 0, 0, 0 >>,
                         log    |-> log]]
           /\ dev' = [dev EXCEPT ![h] = DevApply(@, log)]
    /\ UNCHANGED << variant, image, thr, history, ncalls >>

(***************************************************************************)
(* read_compensated_data, step by step.  A step ends where the call        *)
(* touches the bus or an attribute of self that another call can touch.    *)
(* altitude runs the same steps: it gets its pressure from the values /    *)
(* pressure_precision accessors, which call read_compensated_data.         *)
(***************************************************************************)
InCall(t) == thr[t].pc # "idle"

StartCall(t, h, o, limit) ==
    /\ thr[t].pc = "idle"
    /\ obj[h].state = "ok"
    /\ ncalls < limit
    /\ thr' = [thr EXCEPT ![t] = [IdleThr EXCEPT !.pc = "trigger", !.h = h, !.op = o]]
    /\ ncalls' = ncalls + 1
    /\ UNCHANGED << variant, image, dev, obj, history >>

\* An entry of history: a call that returned or raised.  bytes are the data
\* bytes its bus reads returned, res the tuple it returned; pv1, hpre and hq
\* are the locals var1 (pressure divisor) and h (before and after clamping).
Returned(t, res, hpre, hq, err) ==
    [h |-> thr[t].h, bytes |-> thr[t].rd, res |-> res, pv1 |-> thr[t].pv1,
     hpre |-> hpre, hq |-> hq, err |-> err]

\* the forced-mode write, then the computed wait
Trigger(t) ==
    LET h == thr[t].h
        c == obj[h].cfg
        b == CtrlByte(c)
        w == RegWrite(variant, BME280_REGISTER_CONTROL, b)
    IN  /\ thr[t].pc = "trigger"
        /\ dev' = [dev EXCEPT ![h] = DevApply(@, w)]
        /\ obj' = [obj EXCEPT ![h].l1 = IF variant \in MemVariants THEN b ELSE @]
        /\ IF SleepRaises(variant)
           THEN /\ thr' = [thr EXCEPT ![t] = IdleThr]
                /\ history' = history (+) SetToBag(
                     { Returned(t, << BZero, BZero, BZero >>, BZero, BZero,
                                "NameError") })
           ELSE /\ thr' = [thr EXCEPT ![t].pc = "poll",
                                      ![t].sleep = SleepTime(c),
                                      ![t].log = w]
                /\ UNCHANGED history
        /\ UNCHANGED << variant, image, ncalls >>

\* the log keeps one entry for a run of identical transactions
Logged(log, es) ==
    IF Len(log) >= Len(es) /\ SubSeq(log, Len(log) - Len(es) + 1, Len(log)) = es
    THEN log ELSE log \o es

StatusRead(v, val) ==
    IF v \in MemVariants
    THEN << [BusRead(BME280_REGISTER_STATUS, 2) EXCEPT !.val = val] >>
    ELSE << BusPointer(BME280_REGISTER_STATUS),
            [BusRead(BME280_REGISTER_STATUS, 2) EXCEPT !.val = val] >>

\* a poll that goes on to the data read whatever the status says
PollIgnoreStatus(t) ==
    LET h == thr[t].h
        st == DevStatus16(dev[h])
    IN  /\ thr[t].pc = "poll"
        /\ thr' = [thr EXCEPT
                     ![t].pc = IF variant \in MemVariants THEN "burst" ELSE "read8",
                     ![t].log = Logged(@, StatusRead(variant, BitAnd(st, 8)))]
        /\ UNCHANGED << variant, image, dev, obj, history, ncalls >>

\* one evaluation of the while condition
Poll(t) ==
    LET h == thr[t].h
        st == DevStatus16(dev[h])
        busy == BitAnd(st, 8) # 0
    IN  /\ thr[t].pc = "poll"
        /\ thr' = [thr EXCEPT
                     ![t].pc = IF busy THEN "pollwait"
                               ELSE IF variant \in MemVariants THEN "burst"
                               ELSE "read8",
                     ![t].log = Logged(@, StatusRead(variant, BitAnd(st, 8)))]
        /\ UNCHANGED << variant, image, dev, obj, history, ncalls >>

\* time.sleep(0.001) in the loop body
PollWait(t) ==
    /\ thr[t].pc = "pollwait"
    /\ thr' = [thr EXCEPT ![t].pc = "poll"]
    /\ UNCHANGED << variant, image, dev, obj, history, ncalls >>

\* readfrom_mem_into(address, 0xF7, self._l8_barray)
Burst(t) ==
    LET h == thr[t].h
    IN  /\ thr[t].pc = "burst"
        /\ obj' = [obj EXCEPT ![h].l8 = dev[h].data]
        /\ thr' = [thr EXCEPT ![t].pc = "extract",
                              ![t].rd = dev[h].data,
                              ![t].log = @ \o << BusRead(REG_DATA, 8) >>]
        /\ UNCHANGED << variant, image, dev, history, ncalls >>

\* raw codes from self._l8_barray into result, which is self._l3_resultarray
Extract(t) ==
    LET h == thr[t].h
    IN  /\ thr[t].pc = "extract"
        /\ obj' = [obj EXCEPT ![h].l3 = RawOf(obj[h].l8)]
        /\ thr' = [thr EXCEPT ![t].pc = "unpack"]
        /\ UNCHANGED << variant, image, dev, history, ncalls >>

\* raw_temp, raw_press, raw_hum = self._l3_resultarray
Unpack(t) ==
    LET h == thr[t].h
    IN  /\ thr[t].pc = "unpack"
        /\ thr' = [thr EXCEPT ![t].pc = "temp", ![t].raw = obj[h].l3]
        /\ UNCHANGED << variant, image, dev, obj, history, ncalls >>

\* one self._read8(0xF7 + k) of the micro:bit variants
Read8Step(t) ==
    LET h == thr[t].h
        k == Len(thr[t].rd)
        rd == Append(thr[t].rd, dev[h].data[k + 1])
    IN  /\ thr[t].pc = "read8"
        /\ thr' = [thr EXCEPT
                     ![t].rd = rd,
                     ![t].log = @ \o MbRead(REG_DATA + k, 1),
                     ![t].pc = IF k + 1 = 8 THEN "temp" ELSE "read8",
                     ![t].raw = IF k + 1 = 8 THEN RawOf(rd) ELSE @]
        /\ UNCHANGED << variant, image, dev, obj, history, ncalls >>

\* a temperature stage that adds to self.t_fine instead of assigning it
TempStageAccumulate(t) ==
    LET h == thr[t].h
        v == BAdd(obj[h].t_fine, TFine(obj[h].dig, thr[t].raw[1]))
    IN  /\ thr[t].pc = "temp"
        /\ obj' = [obj EXCEPT ![h].t_fine = v]
        /\ thr' = [thr EXCEPT ![t].pc = "temp2", ![t].tf = v]
        /\ UNCHANGED << variant, image, dev, history, ncalls >>

\* self.t_fine = var1 + var2 (tf remembers the value this call stored)
TempStage(t) ==
    LET h == thr[t].h
        v == TFine(obj[h].dig, thr[t].raw[1])
    IN  /\ thr[t].pc = "temp"
        /\ obj' = [obj EXCEPT ![h].t_fine = v]
        /\ thr' = [thr EXCEPT ![t].pc = "temp2", ![t].tf = v]
        /\ UNCHANGED << variant, image, dev, history, ncalls >>

\* temp = (self.t_fine * 5 + 128) >> 8
TempOut(t) ==
    LET h == thr[t].h
    IN  /\ thr[t].pc = "temp2"
        /\ thr' = [thr EXCEPT ![t].pc = "press", ![t].temp = Temp(obj[h].t_fine)]
        /\ UNCHANGED << variant, image, dev, obj, history, ncalls >>

PressStage(t) ==
    LET h == thr[t].h
    IN  /\ thr[t].pc = "press"
        /\ thr' = [thr EXCEPT
                     ![t].pc = "hum",
                     ![t].pv1 = PressVar1(obj[h].dig, obj[h].t_fine),
                     ![t].pres = Pressure(obj[h].dig, obj[h].t_fine, thr[t].raw[2])]
        /\ UNCHANGED << variant, image, dev, obj, history, ncalls >>

\* the humidity stage and the return
HumStage(t) ==
    LET h == thr[t].h
        hpre == HumPre(obj[h].dig, obj[h].t_fine, thr[t].raw[3])
        hq == HumClamp(hpre)
    IN  /\ thr[t].pc = "hum"
        /\ history' = history (+) SetToBag(
             { Returned(t, << thr[t].temp, thr[t].pres, Humidity(hq) >>,
                        hpre, hq, "") })
        /\ thr' = [thr EXCEPT ![t] = IdleThr]
        /\ UNCHANGED << variant, image, dev, obj, ncalls >>

Step(t) ==
    \/ Trigger(t)
    \/ Poll(t)
    \/ PollWait(t)
    \/ Burst(t)
    \/ Extract(t)
    \/ Unpack(t)
    \/ Read8Step(t)
    \/ TempStage(t)
    \/ TempOut(t)
    \/ PressStage(t)
    \/ HumStage(t)

\* the constructors of the micro:bit files take no temperature scale
Applicable(v) ==
    IF v \in MemVariants THEN Configs ELSE {c \in Configs : c.scale = "C"}

\* Constructor arguments tried on a sensor: every argument set on the
\* datasheet sensor, the defaults on the others.  The second object stands
\* for another device: it is built with the defaults, once the first exists.
CtorInputs(h) ==
    IF h = FirstHandle
    THEN (IF image = CalDatasheet THEN Applicable(variant) ELSE {DefaultCfg})
    ELSE (IF obj[FirstHandle].state = "ok" THEN {DefaultCfg} ELSE {})

(***************************************************************************)
(* Spec: the driver as it is meant to be used (single-threaded, blocking): *)
(* one thread makes the calls, on either object, once both are built.      *)
(***************************************************************************)
Next ==
    \/ \E h \in Handles : \E c \in CtorInputs(h) : Construct(h, c)
    \/ \E h \in Handles, o \in Ops :
         /\ \A g \in Handles : obj[g].state # "none"
         /\ StartCall(FirstThread, h, o, MaxCalls)
    \/ \E t \in Threads : Step(t)
    \/ \E h \in Handles : DeviceConvert(h)

Spec == Init /\ [][Next]_vars

(***************************************************************************)
(* ConcSpec: two threads call into the same object.  The threads run the   *)
(* same code, so when both are idle the first one takes the call.          *)
(***************************************************************************)
ConcInit == Init /\ image = CalDatasheet

ConcNext ==
    \/ Construct(FirstHandle, DefaultCfg)
    \/ \E t \in Threads :
         /\ t # FirstThread => InCall(FirstThread)
         /\ StartCall(t, FirstHandle, "read_compensated_data", MaxConcCalls)
    \/ \E t \in Threads : Step(t)
    \/ DeviceConvert(FirstHandle)

ConcSpec == ConcInit /\ [][ConcNext]_vars

(***************************************************************************)
(* LiveSpec: one thread on one object, and it keeps running: a call that   *)
(* is in its poll loop eventually takes the next step of the loop.         *)
(* Nothing obliges the sensor to finish a conversion.                      *)
(***************************************************************************)
LiveNext ==
    \/ Construct(FirstHandle, DefaultCfg)
    \/ \E o \in Ops : StartCall(FirstThread, FirstHandle, o, MaxCalls)
    \/ \E t \in Threads : Step(t)
    \/ DeviceConvert(FirstHandle)

LiveSpec ==
    /\ ConcInit
    /\ [][LiveNext]_vars
    /\ \A t \in Threads : WF_vars(Poll(t) \/ PollWait(t))

(***************************************************************************)
(* TempSpec: the temperature stage alone, on the corners of its input      *)
(* ranges.  A behaviour starts where a call on a std object has just       *)
(* unpacked its raw codes: the coefficients T1, T2, T3 and the raw         *)
(* temperature code are drawn from the sets below.                         *)
(***************************************************************************)
TempT1s == {0, 1, 27504, 32767, 65535}

TempT2s == {-32768, -2048, -1, 0, 2047, 26435, 32767}

TempT3s == {-32768, -1000, -1, 0, 32767}

\* 20-bit raw temperature codes
TempRaws == {0, 1, 15, 16, 519888, 524288, 1048575}

\* the bytes 0xF7..0xFE that carry raw temperature code r
TempBytes(r) ==
    << 0, 0, 0, r \div 4096, (r \div 16) % 256, (r % 16) * 16, 0, 0 >>

TempInit ==
    /\ variant = "std"
    /\ image = CalDatasheet
    /\ \E r \in TempRaws, a \in TempT1s, b \in TempT2s, c \in TempT3s :
         /\ dev = [d \in Handles |->
                     [measuring |-> FALSE,
                      data |-> IF d = FirstHandle THEN TempBytes(r) ELSE SampleReset,
                      f2 |-> IF d = FirstHandle THEN DefaultCfg.h ELSE 0,
                      f4 |-> IF d = FirstHandle THEN CtrlByte(DefaultCfg) ELSE 0,
                      f5 |-> IF d = FirstHandle THEN Shl(DefaultCfg.iir, 2) ELSE 0]]
         /\ obj = [h \in Handles |->
                     IF h = FirstHandle
                     THEN [state  |-> "ok",
                           err    |-> "",
                           cfg    |-> DefaultCfg,
                           dig    |-> [DecodeMem(CalDatasheet) EXCEPT
                                         !.T1 = a, !.T2 = b, !.T3 = c],
                           t_fine |-> BZero,
                           l1     |-> CtrlByte(DefaultCfg),
                           l8     |-> TempBytes(r),
                           l3     |-> RawOf(TempBytes(r)),
                           log    |-> CtorLog("std", DefaultCfg)]
                     ELSE NoObj]
         /\ thr = [t \in Threads |->
                     IF t = FirstThread
                     THEN [IdleThr EXCEPT
                             !.pc = "temp",
                             !.h = FirstHandle,
                             !.sleep = SleepTime(DefaultCfg),
                             !.rd = TempBytes(r),
                             !.raw = RawOf(TempBytes(r)),
                             !.log = RegWrite("std", BME280_REGISTER_CONTROL,
                                              CtrlByte(DefaultCfg))
                                     \o StatusRead("std", 0)
                                     \o << BusRead(REG_DATA, 8) >>]
                     ELSE IdleThr]
    /\ history = EmptyBag
    /\ ncalls = 1

TempNext == \E t \in Threads : TempStage(t) \/ TempOut(t)

TempSpec == TempInit /\ [][TempNext]_vars

(***************************************************************************)
(* Properties.                                                             *)
(***************************************************************************)

\* C1: in every variant, a constructor given an oversampling mode outside
\* 0..5 or a filter level outside 0..4 fails with an error, and has issued
\* no bus read or write before failing.
C1_BadModesFailBeforeBus ==
    \A h \in Handles :
        LET c == obj[h].cfg
            inRange == /\ c.t \in 0..5
                       /\ c.p \in 0..5
                       /\ c.h \in 0..5
                       /\ c.iir \in 0..4
        IN  (obj[h].state # "none" /\ ~inRange)
                => (obj[h].state = "failed" /\ obj[h].log = <<>>)

\* C2: in every variant, the twelve signed calibration fields are decoded as
\* two's complement: T2, T3, P2..P9 and H2 from their little-endian register
\* pair (v, or v - 65536 when v > 32767), H6 from its byte (b, or b - 256
\* when b > 127).
C2_SignedFieldsTwosComplement ==
    \A h \in Handles :
        LET d == obj[h].dig
            s16(reg) == LET v == CalByte(image, reg) + 256 * CalByte(image, reg + 1)
                        IN  IF v <= 32767 THEN v ELSE v - 65536
            s8(reg)  == LET b == CalByte(image, reg)
                        IN  IF b <= 127 THEN b ELSE b - 256
        IN  obj[h].log # <<>> =>
                /\ d.T2 = s16(138) /\ d.T3 = s16(140)
                /\ d.P2 = s16(144) /\ d.P3 = s16(146) /\ d.P4 = s16(148)
                /\ d.P5 = s16(150) /\ d.P6 = s16(152) /\ d.P7 = s16(154)
                /\ d.P8 = s16(156) /\ d.P9 = s16(158)
                /\ d.H2 = s16(225)
                /\ d.H6 = s8(231)

\* C3: every call of read_compensated_data that returns has clamped the
\* humidity intermediate h to [0, 419430400] before the final shift: the
\* humidity returned is that clamped h shifted right by 12, and it lies in
\* [0, 102400].
C3_HumidityClamped ==
    \A e \in BagToSet(history) :
        e.err = "" =>
            /\ BLe(BZero, e.hq) /\ BLe(e.hq, B(419430400))
            /\ (BLe(BZero, e.hpre) /\ BLe(e.hpre, B(419430400))) => e.hq = e.hpre
            /\ e.res[3] = BShr(e.hq, 12)
            /\ BLe(BZero, e.res[3]) /\ BLe(e.res[3], B(102400))

\* a call returned 102400 for a sample whose h exceeded 419430400
C3_Witness ==
    \E e \in BagToSet(history) :
        /\ e.err = ""
        /\ BLt(B(419430400), e.hpre)
        /\ e.res[3] = B(102400)

\* C4: when the sensor reports status bit 3 set on every read, the poll loop
\* of read_raw_data is left after finitely many polls.
C4_PollLoopExits ==
    \A t \in Threads :
        [](( /\ thr[t].pc = "poll"
             /\ [](dev[FirstHandle].measuring) )
           => <>(thr[t].pc \notin {"poll", "pollwait"}))

\* C5: read_compensated_data is a function of the calibration and of the 8
\* bytes it read: two calls reading the same bytes through objects with the
\* same coefficients return the same tuple, whatever was measured before on
\* the same object and whatever was called on the other object.
C5_Deterministic ==
    \A e1, e2 \in BagToSet(history) :
        (/\ obj[e1.h].dig = obj[e2.h].dig
         /\ e1.bytes = e2.bytes
         /\ e1.err = "" /\ e2.err = "")
            => e1.res = e2.res

\* two calls on one object read the same bytes and returned the same tuple,
\* and a call on the other object read those bytes too
C5_Witness ==
    \E e1, e2 \in BagToSet(history) :
        /\ e1.err = "" /\ e2.err = ""
        /\ CopiesIn(e1, history) >= 2
        /\ e2.h # e1.h
        /\ e2.bytes = e1.bytes
        /\ e2.res = e1.res

C7_OneBurstRead ==
    \A t \in Threads :
        LET isData(x) == x.op = "read" /\ x.reg >= REG_DATA
        IN  thr[t].pc \in {"extract", "unpack", "temp", "temp2", "press", "hum"}
                => SelectSeq(thr[t].log, isData) = << BusRead(REG_DATA, 8) >>

\* C8: a call of altitude issues no bus read or write and starts no
\* conversion on the sensor.
C8_AltitudeNoBus ==
    \A t \in Threads :
        (InCall(t) /\ thr[t].op = "altitude")
            => (thr[t].log = <<>> /\ ~dev[thr[t].h].measuring)

\* C9: when the divisor var1 of the pressure stage is zero, the call returns
\* pressure 0, with the temperature and the humidity computed from the
\* sample it read.
C9_ZeroDivisorPressureZero ==
    \A e \in BagToSet(history) :
        (e.err = "" /\ e.pv1 = BZero) =>
            LET d   == obj[e.h].dig
                raw == RawOf(e.bytes)
                tf  == TFine(d, raw[1])
            IN  /\ e.res[2] = BZero
                /\ e.res[1] = Temp(tf)
                /\ e.res[3] = Humidity(HumClamp(HumPre(d, tf, raw[3])))

\* a call on a sensor with dig_P1 = 0 returned pressure 0
C9_Witness ==
    \E e \in BagToSet(history) :
        /\ e.err = ""
        /\ obj[e.h].dig.P1 = 0
        /\ e.pv1 = BZero
        /\ e.res[2] = BZero

\* C10: when two calls on the same object are interleaved, the pressure and
\* humidity stages of each call find in self.t_fine the value its own
\* temperature stage stored, and work on the raw codes of the bytes it read
\* itself.
C10_NoLeakBetweenCalls ==
    \A t \in Threads :
        thr[t].pc \in {"press", "hum"}
            => /\ obj[thr[t].h].t_fine = thr[t].tf
               /\ thr[t].raw = RawOf(thr[t].rd)

\* C11: the bus operations of a read_raw_data call come in the order
\* trigger, poll, read: the first is the write to 0xF4, and every read of the
\* data registers comes after a status read of 0xF3 made after that write,
\* the latest status read before it having bit 3 clear.
C11_TriggerPollRead ==
    \A t \in Threads :
        LET log == thr[t].log
            isStatus(x) == x.op = "read" /\ x.reg = BME280_REGISTER_STATUS
            isData(x) == x.op = "read" /\ x.reg >= REG_DATA
        IN  /\ log # <<>> =>
                  /\ log[1].op = "write" /\ log[1].n = 1
                  /\ log[1].reg = BME280_REGISTER_CONTROL
            /\ \A i \in 1..Len(log) :
                  isData(log[i]) =>
                      \E j \in 2..(i - 1) :
                          /\ isStatus(log[j])
                          /\ log[j].val = 0
                          /\ \A k \in (j + 1)..(i - 1) : ~isStatus(log[k])

\* a call has read the data registers after a poll that found the bit set
\* and a later one that found it clear
C11_Witness ==
    \E t \in Threads :
        LET log == thr[t].log
        IN  /\ thr[t].pc = "temp"
            /\ \E i, j \in 1..Len(log) :
                  /\ i < j
                  /\ log[i].op = "read" /\ log[i].reg = BME280_REGISTER_STATUS
                  /\ log[i].val = 8
                  /\ log[j].op = "read" /\ log[j].reg = BME280_REGISTER_STATUS
                  /\ log[j].val = 0
            /\ log[Len(log)].op = "read" /\ log[Len(log)].reg >= REG_DATA

\* C12: in every variant dig_H4 and dig_H5 are decoded as 12-bit signed
\* values, dig_H4 = 16*s(0xE4) + (0xE5 & 0x0F) and dig_H5 = 16*s(0xE6) +
\* (0xE5 >> 4) with s(b) the byte read as signed 8-bit; both lie in
\* [-2048, 2047].
C12_H4H5Signed12 ==
    \A h \in Handles :
        LET d == obj[h].dig
            s(reg) == LET b == CalByte(image, reg)
                      IN  IF b <= 127 THEN b ELSE b - 256
            e5 == CalByte(image, 229)
        IN  obj[h].log # <<>> =>
                /\ d.H4 = 16 * s(228) + (e5 % 16)
                /\ d.H5 = 16 * s(230) + (e5 \div 16)
                /\ d.H4 \in -2048..2047
                /\ d.H5 \in -2048..2047

\* C13: for every configuration the constructor accepted, a call writes
\* 0xF4 exactly once, with (pressure_mode << 5) | (temperature_mode << 2) | 1;
\* the value is a byte, its two low bits are 01, its bits 2..4 are the
\* temperature mode and its bits 5..7 the pressure mode.
C13_ControlByte ==
    \A t \in Threads :
        LET c  == obj[thr[t].h].cfg
            isCtrl(x) == /\ x.op = "write" /\ x.n = 1
                         /\ x.reg = BME280_REGISTER_CONTROL
            ws == SelectSeq(thr[t].log, isCtrl)
        IN  thr[t].pc \notin {"idle", "trigger"} =>
                /\ Len(ws) = 1
                /\ ws[1].val = CtrlByte(c)
                /\ ws[1].val \in 0..255
                /\ ws[1].val % 4 = 1
                /\ (ws[1].val \div 4) % 8 = c.t
                /\ ws[1].val \div 32 = c.p

\* C14: a construction that succeeds does its bus operations in one order
\* in every variant: every calibration read comes before the first register
\* write, the register writes are 0xF4 <- 0x24, 0xF5 <- iir << 2,
\* 0xF2 <- humidity mode in that order, and none of them sets the mode bits
\* of 0xF4 to forced mode.
C14_CtorOrder ==
    \A h \in Handles :
        LET log == obj[h].log
            c == obj[h].cfg
            isRegWrite(x) == x.op = "write" /\ x.n = 1
        IN  obj[h].state = "ok" =>
                /\ \A i, j \in 1..Len(log) :
                      (i < j /\ isRegWrite(log[i])) => log[j].op # "read"
                /\ SelectSeq(log, isRegWrite) =
                      << BusWrite(BME280_REGISTER_CONTROL, 36),
                         BusWrite(BME280_REGISTER_CONTROL_IIR, c.iir * 4),
                         BusWrite(BME280_REGISTER_CONTROL_HUM, c.h) >>
                /\ \A i \in 1..Len(log) :
                      (isRegWrite(log[i]) /\ log[i].reg = BME280_REGISTER_CONTROL)
                          => log[i].val % 4 \notin {1, 2}

\* C15: for raw temperature codes in [0, 2^20), dig_T1 in [0, 65535] and
\* dig_T2, dig_T3 in [-32768, 32767], every intermediate of the temperature
\* stage fits in a signed 64-bit integer, t_fine = var1 + var2 fits in a
\* signed 32-bit integer, and temperature = (t_fine * 5 + 128) >> 8.
C15_TempWidths ==
    \A t \in Threads :
        LET d  == obj[thr[t].h].dig
            r  == thr[t].raw[1]
            tf == obj[thr[t].h].t_fine
        IN  /\ thr[t].pc \in {"temp2", "press"} =>
                  /\ r \in 0..1048575
                  /\ d.T1 \in 0..65535
                  /\ d.T2 \in -32768..32767
                  /\ d.T3 \in -32768..32767
                  /\ FitsSigned(TempVar1(d, r), 64)
                  /\ FitsSigned(TempVar2Diff(d, r), 64)
                  /\ FitsSigned(TempVar2Sq(d, r), 64)
                  /\ FitsSigned(TempVar2Mul(d, r), 64)
                  /\ FitsSigned(TempVar2(d, r), 64)
                  /\ tf = BAdd(TempVar1(d, r), TempVar2(d, r))
                  /\ FitsSigned(tf, 32)
            /\ thr[t].pc = "press" =>
                  thr[t].temp = BShr(BAdd(BMul(tf, B(5)), B(128)), 8)

\* the temperature stage has run on inputs whose intermediates do not fit
\* in 32 bits (the largest difference squared, times the most negative T3)
C15_Witness ==
    \E t \in Threads :
        LET d == obj[thr[t].h].dig
            r == thr[t].raw[1]
        IN  /\ thr[t].pc = "press"
            /\ d.T1 = 65535 /\ d.T3 = -32768 /\ r = 0
            /\ ~FitsSigned(TempVar2Sq(d, r), 32)
            /\ ~FitsSigned(TempVar2Mul(d, r), 32)
            /\ FitsSigned(obj[thr[t].h].t_fine, 32)

\* C16: for every calibration set and every raw sample, the temperature,
\* the pressure and the humidity that read_compensated_data returns each fit
\* in a signed 32-bit integer.
C16_ResultsFitInt32 ==
    \A e \in BagToSet(history) :
        e.err = "" =>
            /\ FitsSigned(e.res[1], 32)
            /\ FitsSigned(e.res[2], 32)
            /\ FitsSigned(e.res[3], 32)

\* C17: with the default modes (temperature level 2 = x2, pressure level
\* 5 = x16, humidity level 1 = x1) the wait computed by read_raw_data is the
\* documented maximum measurement time, each term using the oversampling
\* factor of its channel: 1250 + 2300*2 + (2300*16 + 575) + (2300*1 + 575)
\* = 46100 microseconds.
C17_DefaultWait46100 ==
    \A t \in Threads :
        (/\ InCall(t) /\ thr[t].pc # "trigger"
         /\ obj[thr[t].h].cfg = DefaultCfg)
            => /\ thr[t].sleep = 1250 + 2300 * 2 + (2300 * 16 + 575) + (2300 * 1 + 575)
               /\ thr[t].sleep = 46100

=============================================================================
